---- MODULE Spec2Model ----
(***************************************************************************)
(* The tool invocation pipeline of pydantic_ai/tools.py: Tool.run, its     *)
(* body Tool._run, the retry governor Tool._on_error and the definition    *)
(* preparer Tool.prepare_tool_def.                                         *)
(*                                                                         *)
(* One Tool object is modelled.  An invocation of run is split at its only *)
(* suspension point, the await of function_schema.call (tools.py:395):     *)
(* everything before it runs in one step (RunStart), everything after it   *)
(* in one step (RunResume).  The validator, the callable, the prepare hook *)
(* and the tracer are collaborators; what they answer is an input.         *)
(***************************************************************************)
EXTENDS Integers, Sequences, FiniteSets, TLC

\* ---------------------------------------------------------------- bounds
\* Largest max_retries a Tool is constructed with.
MaxK == 2
\* Invocations of run that may be in flight at once (slots).
NumCalls == 2
\* Invocations of run over a behaviour: enough for MaxK prompts and the fatal one.
MaxRuns == MaxK + 1
LongRuns == MaxRuns + 2

\* ---------------------------------------------------------------- values
\* Python's None, for the optional string fields and optional results.
None == "None"
\* Python's None for max_retries (int | None); the ints are 0..MaxK.
NoBound == -1

\* self.name, fixed at construction.
ToolName == "lookup"

\* A JSON value of the argument object: an integer or a string.
IntVal == [ty |-> "int", v |-> "1"]
StrVal == [ty |-> "str", v |-> "a"]
\* The default of x when f declares one (f(x: int = 7)).
DefaultVal == [ty |-> "int", v |-> "7"]

\* A mapping is the set of its <<key, value>> items.
EmptyMap == {}
GoodMap == {<<"x", IntVal>>}
BadMap == {<<"x", StrVal>>}

\* ToolCallPart.args: a JSON text, a mapping, or None.
\* (s holds the text of a text, d the items of a mapping.)
StrArg(s) == [t |-> "str", s |-> s, d |-> {}]
DictArg(d) == [t |-> "dict", s |-> "", d |-> d]
NoneArg == [t |-> "none", s |-> "", d |-> {}]

Args ==
    {StrArg(""), StrArg("{}"), StrArg("{\"x\": 1}"), StrArg("{\"x\": \"a\"}"), StrArg("{")}
        \cup {DictArg(EmptyMap), DictArg(GoodMap), DictArg(BadMap), NoneArg}

\* The tool name and call identifier a ToolCallPart arrives with.
CallIdents ==
    {[tool_name |-> "lookup", tool_call_id |-> "call_1"],
     [tool_name |-> "alias", tool_call_id |-> "call_2"]}

ToolCallPart(ident, args) ==
    [tool_name |-> ident.tool_name, tool_call_id |-> ident.tool_call_id, args |-> args]

Messages == {ToolCallPart(c, a) : c \in CallIdents, a \in Args}

\* The run-scoped RunContext handed to run: its retry, tool_name and tool_call_id.
RunContexts ==
    {[retry |-> 0, tool_name |-> None, tool_call_id |-> None],
     [retry |-> 5, tool_name |-> "previous", tool_call_id |-> "call_0"]}

\* The tracer handed to run: whether starting the span raises, whether the span
\* records, and whether set_attribute raises.
Tracers == {"ok", "not_recording", "start_raises", "set_attribute_raises"}

\* ------------------------------------------------------------ the validator
\* function_schema.validator for a function f(x: int): x is required or has a default.
JsonOk(m) == [ok |-> TRUE, value |-> m]
JsonErr(errs) == [ok |-> FALSE, errors |-> errs]

FieldError(type, loc) == [type |-> type, loc |-> loc]

\* Mutant of OrEmptyText: the text is handed to the validator as it is.
OrEmptyText_Identity(s) == s

\* Python's `message.args or '{}'` / `message.args or {}`: a falsy value is replaced.
OrEmptyText(s) == IF s = "" THEN "{}" ELSE s
OrEmptyMap(a) == IF a.t = "none" \/ a.d = {} THEN EmptyMap ELSE a.d

\* validator.validate_python on a mapping: the validated arguments, in which a
\* parameter the mapping leaves out has its default.
ValidatePython(m, required) ==
    IF \E it \in m : it[1] = "x"
    THEN LET it == CHOOSE i \in m : i[1] = "x"
         IN  IF it[2].ty = "int"
             THEN JsonOk(m)
             ELSE JsonErr(<<FieldError("int_parsing", "x")>>)
    ELSE IF required
         THEN JsonErr(<<FieldError("missing", "x")>>)
         ELSE JsonOk(m \cup {<<"x", DefaultVal>>})

\* validator.validate_json on a text: parse, then validate.
ValidateJson(s, required) ==
    CASE s = "{}" -> ValidatePython(EmptyMap, required)
      [] s = "{\"x\": 1}" -> ValidatePython(GoodMap, required)
      [] s = "{\"x\": \"a\"}" -> ValidatePython(BadMap, required)
      [] OTHER -> JsonErr(<<FieldError("json_invalid", "")>>)

\* tools.py:379-386: the try block of _run.
Decode(args, required) ==
    IF args.t = "str"
    THEN ValidateJson(OrEmptyText(args.s), required)
    ELSE ValidatePython(OrEmptyMap(args), required)

\* ------------------------------------------------------------ results
ToolReturnPart(tool_name, content, tool_call_id) ==
    [kind |-> "ToolReturnPart", tool_name |-> tool_name, content |-> content,
     tool_call_id |-> tool_call_id]

RetryPromptPart(tool_name, content, tool_call_id) ==
    [kind |-> "RetryPromptPart", tool_name |-> tool_name, content |-> content,
     tool_call_id |-> tool_call_id]

\* An exception leaving the method: its type and the values its message interpolates.
Raised(type, fields) == [kind |-> "raise", type |-> type, fields |-> fields]

\* The exceptions _on_error receives.
ValidationError(errs) == [type |-> "ValidationError", errors |-> errs]
ModelRetry(message) == [type |-> "ModelRetry", message |-> message]

\* tools.py:411: UnexpectedModelBehavior(f'Tool exceeded max retries count of {self.max_retries}').
UnexpectedModelBehavior(mr) ==
    Raised("UnexpectedModelBehavior", [max_retries |-> mr])

\* ------------------------------------------------------------ the retry governor
\* Mutant of OnError: the bound is tested with >= (the k-th failure is already fatal).
OnError_OffByOne(cr, mr, exc, msg) ==
    LET n == cr + 1
    IN  IF mr = NoBound \/ n >= mr
        THEN [current_retry |-> n, response |-> UnexpectedModelBehavior(mr)]
        ELSE [current_retry |-> n,
              response |->
                  RetryPromptPart(
                      msg.tool_name,
                      IF exc.type = "ValidationError" THEN exc.errors ELSE exc.message,
                      msg.tool_call_id)]

\* Mutant of OnError: the bound is tested before the increment.
OnError_TestThenIncrement(cr, mr, exc, msg) ==
    LET n == cr + 1
    IN  IF mr = NoBound \/ cr > mr
        THEN [current_retry |-> n, response |-> UnexpectedModelBehavior(mr)]
        ELSE [current_retry |-> n,
              response |->
                  RetryPromptPart(
                      msg.tool_name,
                      IF exc.type = "ValidationError" THEN exc.errors ELSE exc.message,
                      msg.tool_call_id)]

\* Mutant of OnError: the prompt is labelled with the Tool's own name, not with the
\* name the message carries.
OnError_NameFromTool(cr, mr, exc, msg) ==
    LET n == cr + 1
    IN  IF mr = NoBound \/ n > mr
        THEN [current_retry |-> n, response |-> UnexpectedModelBehavior(mr)]
        ELSE [current_retry |-> n,
              response |->
                  RetryPromptPart(
                      ToolName,
                      IF exc.type = "ValidationError" THEN exc.errors ELSE exc.message,
                      msg.tool_call_id)]

\* tools.py:406-421, Tool._on_error: the counter after the call and what the call
\* returns or raises.  The increment and the comparison are one step.
OnError(cr, mr, exc, msg) ==
    LET n == cr + 1
    IN  IF mr = NoBound \/ n > mr
        THEN [current_retry |-> n, response |-> UnexpectedModelBehavior(mr)]
        ELSE [current_retry |-> n,
              response |->
                  RetryPromptPart(
                      msg.tool_name,
                      IF exc.type = "ValidationError" THEN exc.errors ELSE exc.message,
                      msg.tool_call_id)]

\* ------------------------------------------------------------ _run
\* Mutant of DeriveCtx: the callable is handed the base context as it is.
DeriveCtx_KeepBase(rc, cr, msg) == rc

\* tools.py:388-393: dataclasses.replace builds a new context; run_context is not written.
DeriveCtx(rc, cr, msg) ==
    [rc EXCEPT !.retry = cr, !.tool_name = msg.tool_name, !.tool_call_id = msg.tool_call_id]

\* Mutant of BaseAfterDerive: the per-call values are written into the context the
\* caller handed to run.
BaseAfterDerive_InPlace(rc, cr, msg) ==
    [rc EXCEPT !.retry = cr, !.tool_name = msg.tool_name, !.tool_call_id = msg.tool_call_id]

\* tools.py:388-393: what the caller's context is once ctx has been built from it;
\* dataclasses.replace reads its argument and assigns to the new object only.
BaseAfterDerive(rc, cr, msg) == rc

\* Mutant of RunBeforeCall: a decode failure does not end _run; the callable is
\* awaited with no arguments.
RunBeforeCall_CallAnyway(cr, mr, rc, required, msg) ==
    LET d == Decode(msg.args, required)
    IN  [suspended |-> TRUE, args_dict |-> IF d.ok THEN d.value ELSE EmptyMap,
         ctx |-> DeriveCtx(rc, cr, msg)]

\* tools.py:379-393: _run up to the await.  Either the decode failed and _run is over
\* (suspended = FALSE), or the callable is about to be awaited with args_dict and ctx.
RunBeforeCall(cr, mr, rc, required, msg) ==
    LET d == Decode(msg.args, required)
    IN  IF d.ok
        THEN [suspended |-> TRUE, args_dict |-> d.value, ctx |-> DeriveCtx(rc, cr, msg)]
        ELSE [suspended |-> FALSE, cause |-> "decode_error",
              out |-> OnError(cr, mr, ValidationError(d.errors), msg)]

\* What awaiting function_schema.call can end in: a returned value or an exception
\* thrown at the await (raised by the callable, or the task's cancellation).
Returned(content) == [kind |-> "return", type |-> None, payload |-> content]
Threw(type, payload) == [kind |-> "raise", type |-> type, payload |-> payload]

CallOutcomes ==
    {Returned("42"),
     Threw("ModelRetry", "x must be positive"),
     Threw("ValidationError", "raised in the body"),
     Threw("ValueError", "boom"),
     Threw("CancelledError", "")}

\* Mutant of RunAfterCall: a ValidationError raised by the callable is caught like
\* a ModelRetry.
RunAfterCall_CatchValidation(cr, mr, msg, outcome) ==
    IF outcome.kind = "raise"
    THEN IF outcome.type \in {"ModelRetry", "ValidationError"}
         THEN [cause |-> "ModelRetry",
               out |-> OnError(cr, mr, ModelRetry(outcome.payload), msg)]
         ELSE [cause |-> "callable_raised",
               out |-> [current_retry |-> cr,
                        response |-> Raised(outcome.type, [origin |-> "callable"])]]
    ELSE [cause |-> "returned",
          out |-> [current_retry |-> 0,
                   response |-> ToolReturnPart(msg.tool_name, outcome.payload,
                                               msg.tool_call_id)]]

\* Mutant of RunAfterCall: a success does not reset the counter.
RunAfterCall_NoReset(cr, mr, msg, outcome) ==
    IF outcome.kind = "raise"
    THEN IF outcome.type = "ModelRetry"
         THEN [cause |-> "ModelRetry",
               out |-> OnError(cr, mr, ModelRetry(outcome.payload), msg)]
         ELSE [cause |-> "callable_raised",
               out |-> [current_retry |-> cr,
                        response |-> Raised(outcome.type, [origin |-> "callable"])]]
    ELSE [cause |-> "returned",
          out |-> [current_retry |-> cr,
                   response |-> ToolReturnPart(msg.tool_name, outcome.payload,
                                               msg.tool_call_id)]]

\* Mutant of RunAfterCall: a success resets the counter only while the budget lasts.
RunAfterCall_NoResetWhenExhausted(cr, mr, msg, outcome) ==
    IF outcome.kind = "raise"
    THEN IF outcome.type = "ModelRetry"
         THEN [cause |-> "ModelRetry",
               out |-> OnError(cr, mr, ModelRetry(outcome.payload), msg)]
         ELSE [cause |-> "callable_raised",
               out |-> [current_retry |-> cr,
                        response |-> Raised(outcome.type, [origin |-> "callable"])]]
    ELSE [cause |-> "returned",
          out |-> [current_retry |-> IF mr # NoBound /\ cr > mr THEN cr ELSE 0,
                   response |-> ToolReturnPart(msg.tool_name, outcome.payload,
                                               msg.tool_call_id)]]

\* Mutant of RunAfterCall: an exception of the callable other than ModelRetry resets
\* the counter.
RunAfterCall_ResetOnError(cr, mr, msg, outcome) ==
    IF outcome.kind = "raise"
    THEN IF outcome.type = "ModelRetry"
         THEN [cause |-> "ModelRetry",
               out |-> OnError(cr, mr, ModelRetry(outcome.payload), msg)]
         ELSE [cause |-> "callable_raised",
               out |-> [current_retry |-> 0,
                        response |-> Raised(outcome.type, [origin |-> "callable"])]]
    ELSE [cause |-> "returned",
          out |-> [current_retry |-> 0,
                   response |-> ToolReturnPart(msg.tool_name, outcome.payload,
                                               msg.tool_call_id)]]

\* tools.py:394-404: _run from the await on.  cr is the counter when the await ends.
RunAfterCall(cr, mr, msg, outcome) ==
    IF outcome.kind = "raise"
    THEN IF outcome.type = "ModelRetry"
         THEN [cause |-> "ModelRetry",
               out |-> OnError(cr, mr, ModelRetry(outcome.payload), msg)]
         ELSE [cause |-> "callable_raised",
               out |-> [current_retry |-> cr,
                        response |-> Raised(outcome.type, [origin |-> "callable"])]]
    ELSE [cause |-> "returned",
          out |-> [current_retry |-> 0,
                   response |-> ToolReturnPart(msg.tool_name, outcome.payload,
                                               msg.tool_call_id)]]

\* ------------------------------------------------------------ run
\* span.is_recording() of the span the tracer hands out.
IsRecording(tracer) == tracer \in {"ok", "set_attribute_raises"}

\* tools.py:365-374: after _run returned a part, the response attribute is set when
\* content is included and the span records; an exception from _run skips this.
SetResponseAttribute(response, tracer, include_content) ==
    IF response.kind # "raise" /\ include_content /\ IsRecording(tracer)
          /\ tracer = "set_attribute_raises"
    THEN Raised("TracerError", [origin |-> "set_attribute"])
    ELSE response

\* Mutant of WithSpanExit: the span is ended on the return path only.
WithSpanExit_OnReturnOnly(span, result) ==
    IF span = "open" /\ result.kind # "raise" THEN "closed" ELSE span

\* tools.py:364: leaving the with block, by return or by exception, ends the span.
WithSpanExit(span, result) == IF span = "open" THEN "closed" ELSE span

\* The kind of outcome the caller of run sees.
OutcomeKind(result) ==
    CASE result.kind = "ToolReturnPart" -> "Return"
      [] result.kind = "RetryPromptPart" -> "RetryPrompt"
      [] result.kind = "raise" /\ result.type = "UnexpectedModelBehavior" -> "Exhausted"
      [] OTHER -> "Error"

\* ------------------------------------------------------------ prepare_tool_def
\* function_schema.json_schema of f(x: int), x required or not.
JsonSchema(required) ==
    [type |-> "object", properties |-> {"x"},
     required |-> IF required THEN {"x"} ELSE {}]

\* tools.py:433-455.
ToolDefinition(name, description, parameters_json_schema, strict) ==
    [kind |-> "ToolDefinition", name |-> name, description |-> description,
     parameters_json_schema |-> parameters_json_schema, strict |-> strict]

\* Tool.strict (tools.py:168): None, True or False (as strings, next to None).
StrictValues == {None, "True", "False"}

\* What one call of the prepare hook answers: the definition it was handed, a changed
\* definition, None, or an exception.
HookAnswers == {"same", "changed", "none", "raises"}

\* A hook that changes the parameter schema of the definition it was handed: by
\* writing into the schema it finds there (tool_def.parameters_json_schema
\* ['properties']['y'] = ...), or by assigning a schema of its own to the field.
SchemaHookAnswers == {"schema_in_place", "schema_replaced"}

\* A schema with one more property.
WithProperty(schema, p) == [schema EXCEPT !.properties = @ \cup {p}]

ApplyHook(answer, tool_def) ==
    CASE answer = "same" -> tool_def
      [] answer = "changed" -> [tool_def EXCEPT !.description = "changed by the hook"]
      [] answer \in SchemaHookAnswers ->
             [tool_def EXCEPT !.parameters_json_schema = WithProperty(@, "y")]
      [] answer = "none" -> [kind |-> "None"]
      [] OTHER -> Raised("HookError", [origin |-> "prepare"])

\* tools.py:315-320: the definition prepare_tool_def builds from the Tool's attributes.
BuildToolDef(json_schema, strict) ==
    ToolDefinition(ToolName, "Look x up.", json_schema, strict)

\* tools.py:306-324.
PrepareToolDefResult(prepare, json_schema, strict, answer) ==
    LET tool_def == BuildToolDef(json_schema, strict)
    IN  IF prepare # None
        THEN ApplyHook(answer, tool_def)
        ELSE tool_def

\* tools.py:318: the definition's parameters_json_schema is the very dict object
\* function_schema.json_schema, so what the hook writes into it is written into the
\* Tool's schema; a field assigned on the definition stays on the definition.
SchemaAfterPrepare(prepare, json_schema, answer) ==
    IF prepare # None /\ answer = "schema_in_place"
    THEN WithProperty(json_schema, "y")
    ELSE json_schema

\* ------------------------------------------------------------ state
VARIABLES
    max_retries,    \* Tool.max_retries (tools.py:162): NoBound or 0..MaxK
    required,       \* Tool.function_schema: whether x is a required parameter
    prepare,        \* Tool.prepare (tools.py:165): None or "hook"
    run_context,    \* the run-scoped RunContext every run is handed
    current_retry,  \* Tool.current_retry (tools.py:180)
    calls,          \* the invocations of run: slot -> frame of the coroutine
    last,           \* how the most recently finished run ended
    hist,           \* the finished runs, oldest first: why _run ended, what run gave
    tool_def,       \* what the latest prepare_tool_def returned
    strict,         \* Tool.strict (tools.py:168)
    json_schema,    \* Tool.function_schema.json_schema (tools.py:169)
    built_def,      \* the definition the latest prepare_tool_def built (tools.py:315-320)
    prepare_pc      \* prepare_tool_def: "idle", or "in_hook" while the hook is awaited

vars == <<max_retries, required, prepare, run_context, current_retry, calls, last,
          hist, tool_def, strict, json_schema, built_def, prepare_pc>>

Slots == 1..NumCalls

\* Python's truth value of message.args: the empty text, the empty mapping and None
\* are falsy.
IsFalsy(args) == args \in {StrArg(""), DictArg(EmptyMap), NoneArg}

\* What the frames and records keep of a Call Message: its names and whether its
\* args were falsy.
Kept(msg) ==
    [tool_name |-> msg.tool_name, tool_call_id |-> msg.tool_call_id,
     falsy_args |-> IsFalsy(msg.args)]

\* The field errors the validator reports for a message (none when it validates).
DecodeErrors(msg, req) ==
    LET d == Decode(msg.args, req) IN IF d.ok THEN <<>> ELSE d.errors

NoIdent == [tool_name |-> None, tool_call_id |-> None, falsy_args |-> TRUE]
NoCtx == [retry |-> -1, tool_name |-> None, tool_call_id |-> None]

\* A slot with no run in it.
IdleCall ==
    [pc |-> "idle", msg |-> NoIdent, errors |-> <<>>, args_dict |-> EmptyMap,
     ctx |-> NoCtx,
     tracer |-> "ok", include_content |-> FALSE, span |-> "none"]

\* The frame of a run suspended at tools.py:395; errors are the field errors the
\* validator reported for the message.
InCall(msg, errors, args_dict, ctx, tracer, include_content) ==
    [pc |-> "in_call", msg |-> Kept(msg), errors |-> errors,
     args_dict |-> args_dict, ctx |-> ctx, tracer |-> tracer,
     include_content |-> include_content, span |-> "open"]

NoResult == [kind |-> "none"]

\* What a finished run went through: the field errors of the decode (<<>> when it
\* succeeded or was not reached), the retry of the context the callable was awaited
\* with (snapshot, -1 when no context was built), what the await ended in (NoAwait
\* when the callable was not awaited) and the counter when _on_error or the reset
\* was reached (before).
NoAwait == [kind |-> "none", type |-> None, payload |-> None]

Passed(errors, snapshot, await, before) ==
    [errors |-> errors, snapshot |-> snapshot, thrown |-> await.type,
     payload |-> await.payload, before |-> before]

\* The record of a finished run: the call, why _run ended (cause), what it went
\* through, what _run gave (response), what run gave its caller (result), the counter
\* and the span at exit.
Finished(msg, cause, passed, response, result, cr, span) ==
    [msg |-> msg, cause |-> cause, errors |-> passed.errors,
     snapshot |-> passed.snapshot, thrown |-> passed.thrown, payload |-> passed.payload,
     before |-> passed.before, response |-> response, result |-> result,
     current_retry |-> cr, span |-> span]

\* The entry of hist for a finished run.
HistEntry(cause, passed, result) ==
    [cause |-> cause, kind |-> OutcomeKind(result), snapshot |-> passed.snapshot,
     before |-> passed.before]

InFlight == {i \in Slots : calls[i].pc = "in_call"}

TypeOK ==
    /\ max_retries \in {NoBound} \cup (0..MaxK)
    /\ required \in BOOLEAN
    /\ prepare \in {None, "hook"}
    /\ run_context \in RunContexts
    /\ current_retry \in 0..LongRuns
    /\ strict \in StrictValues
    /\ prepare_pc \in {"idle", "in_hook"}
    /\ prepare_pc = "in_hook" => (prepare # None /\ built_def.kind = "ToolDefinition")
    /\ json_schema \in {JsonSchema(required), WithProperty(JsonSchema(required), "y")}
    /\ \A i \in Slots : calls[i].pc \in {"idle", "in_call"}
    /\ Len(hist) + Cardinality(InFlight) <= LongRuns
    /\ \A n \in 1..Len(hist) :
           /\ hist[n].kind \in {"Return", "RetryPrompt", "Exhausted", "Error"}
           /\ hist[n].cause \in {"decode_error", "ModelRetry", "returned",
                                 "callable_raised", "span_start"}

\* A Tool as constructed (tools.py:250-265, current_retry = 0 by tools.py:180).
Init ==
    /\ max_retries \in {NoBound} \cup (0..MaxK)
    /\ required \in BOOLEAN
    /\ prepare \in {None, "hook"}
    /\ run_context \in RunContexts
    /\ current_retry = 0
    /\ calls = [i \in Slots |-> IdleCall]
    /\ last = Finished(NoIdent, "none", Passed(<<>>, -1, NoAwait, 0), NoResult, NoResult,
                       0, "none")
    /\ hist = <<>>
    /\ tool_def = [kind |-> "unprepared"]
    /\ strict = None
    /\ json_schema = JsonSchema(required)
    /\ built_def = [kind |-> "unprepared"]
    /\ prepare_pc = "idle"

\* ------------------------------------------------------------ actions
\* run is called in slot i (tools.py:326-374) and runs to its first suspension or,
\* when the span cannot be started or the arguments do not decode, to its end.
\* limit caps the number of runs of a behaviour.
RunStartUpTo(limit, i, msg, tracer, include_content) ==
    /\ calls[i].pc = "idle"
    /\ Len(hist) + Cardinality(InFlight) < limit
    /\ IF tracer = "start_raises"
       THEN LET passed == Passed(<<>>, -1, NoAwait, current_retry)
                 result == Raised("TracerError", [origin |-> "start_as_current_span"])
            IN  /\ last' = Finished(Kept(msg), "span_start", passed, NoResult, result,
                                    current_retry, "none")
                /\ hist' = Append(hist, HistEntry("span_start", passed, result))
                /\ UNCHANGED <<current_retry, calls, run_context>>
       ELSE LET b == RunBeforeCall(current_retry, max_retries, run_context, required, msg)
            IN  IF b.suspended
                THEN /\ calls' = [calls EXCEPT
                                     ![i] = InCall(msg, DecodeErrors(msg, required),
                                                   b.args_dict, b.ctx, tracer,
                                                   include_content)]
                     /\ run_context' = BaseAfterDerive(run_context, current_retry, msg)
                     /\ UNCHANGED <<current_retry, last, hist>>
                ELSE LET result == SetResponseAttribute(b.out.response, tracer,
                                                        include_content)
                         passed == Passed(DecodeErrors(msg, required), -1,
                                          NoAwait, current_retry)
                     IN  /\ current_retry' = b.out.current_retry
                         /\ last' = Finished(Kept(msg), b.cause, passed, b.out.response,
                                             result, b.out.current_retry,
                                             WithSpanExit("open", result))
                         /\ hist' = Append(hist, HistEntry(b.cause, passed, result))
                         /\ UNCHANGED <<calls, run_context>>
    /\ UNCHANGED <<max_retries, required, prepare, tool_def, strict, json_schema,
                   built_def,
                   prepare_pc>>

RunStart(i, msg, tracer, include_content) ==
    RunStartUpTo(MaxRuns, i, msg, tracer, include_content)

\* Mutant of RunResume: the outcome is applied to the counter the invocation
\* snapshotted into its context, not to the counter as it is when the await ends.
RunResume_FromSnapshot(i, outcome) ==
    /\ calls[i].pc = "in_call"
    /\ LET c == calls[i]
           a == RunAfterCall(c.ctx.retry, max_retries, c.msg, outcome)
           result == SetResponseAttribute(a.out.response, c.tracer, c.include_content)
           passed == Passed(<<>>, c.ctx.retry, outcome, current_retry)
       IN  /\ current_retry' = a.out.current_retry
           /\ last' = Finished(c.msg, a.cause, passed, a.out.response, result,
                               a.out.current_retry, WithSpanExit(c.span, result))
           /\ hist' = Append(hist, HistEntry(a.cause, passed, result))
           /\ calls' = [calls EXCEPT ![i] = IdleCall]
    /\ UNCHANGED <<max_retries, required, prepare, run_context, tool_def, strict,
                   json_schema, built_def,
                   prepare_pc>>

\* The await in slot i ends with outcome and run continues to its end (tools.py:394-404,
\* then 366-374).
RunResume(i, outcome) ==
    /\ calls[i].pc = "in_call"
    /\ LET c == calls[i]
           a == RunAfterCall(current_retry, max_retries, c.msg, outcome)
           result == SetResponseAttribute(a.out.response, c.tracer, c.include_content)
           passed == Passed(<<>>, c.ctx.retry, outcome, current_retry)
       IN  /\ current_retry' = a.out.current_retry
           /\ last' = Finished(c.msg, a.cause, passed, a.out.response, result,
                               a.out.current_retry, WithSpanExit(c.span, result))
           /\ hist' = Append(hist, HistEntry(a.cause, passed, result))
           /\ calls' = [calls EXCEPT ![i] = IdleCall]
    /\ UNCHANGED <<max_retries, required, prepare, run_context, tool_def, strict,
                   json_schema, built_def,
                   prepare_pc>>

\* prepare_tool_def is called for a step (tools.py:306-324) and runs to its return
\* when the Tool has no hook (tools.py:323-324), to the await of the hook otherwise
\* (tools.py:322): the definition is built and handed to the hook, nothing is returned
\* yet, and other calls on the Tool may run before the hook answers.
PrepareToolDefCall ==
    /\ prepare_pc = "idle"
    /\ built_def' = BuildToolDef(json_schema, strict)
    /\ IF prepare = None
       THEN /\ tool_def' = PrepareToolDefResult(prepare, json_schema, strict, "same")
            /\ UNCHANGED prepare_pc
       ELSE /\ prepare_pc' = "in_hook"
            /\ UNCHANGED tool_def
    /\ UNCHANGED <<max_retries, required, prepare, run_context, current_retry, calls,
                   last, hist, strict, json_schema>>

\* The await of the hook ends with answer (tools.py:322): what the hook returns is what
\* prepare_tool_def returns, an exception of the hook leaves the method.  The hook
\* was handed the definition built at the call; what it wrote into the schema of
\* that definition is in the Tool's schema.
PrepareToolDefResume(answer) ==
    /\ prepare_pc = "in_hook"
    /\ tool_def' = ApplyHook(answer, built_def)
    /\ json_schema' = SchemaAfterPrepare(prepare, json_schema, answer)
    /\ prepare_pc' = "idle"
    /\ UNCHANGED <<max_retries, required, prepare, run_context, current_retry, calls,
                   last, hist, strict, built_def>>

\* The Tool's strict attribute is assigned between two steps (tools.py:168; the
\* dataclass is not frozen).
SetStrict(v) ==
    /\ v # strict
    /\ strict' = v
    /\ UNCHANGED <<max_retries, required, prepare, run_context, current_retry, calls,
                   last, hist, tool_def, json_schema, built_def,
                   prepare_pc>>

\* ------------------------------------------------------------ specifications
\* Spec: one invocation at a time (the caller awaits each run before the next), a Tool
\* without a prepare hook, every kind of message, tracer and callable outcome.
InitSeq == Init /\ prepare = None

StartOne == \E m \in Messages, tr \in Tracers, inc \in BOOLEAN : RunStart(1, m, tr, inc)
ResumeOne == \E o \in CallOutcomes : RunResume(1, o)

Next == StartOne \/ ResumeOne

Spec == InitSeq /\ [][Next]_vars

\* SpecStep: the steps of a run.  prepare_tool_def is called for a step and the Tool
\* is invoked, one invocation at a time, with a working tracer; invocations may run
\* while the hook of prepare_tool_def is awaited.
InitStep == Init /\ run_context.retry = 0

PrepareResume == \E answer \in HookAnswers : PrepareToolDefResume(answer)
StartTraced == \E m \in Messages : RunStart(1, m, "ok", FALSE)

NextStep == PrepareToolDefCall \/ PrepareResume \/ StartTraced \/ ResumeOne

SpecStep == InitStep /\ [][NextStep]_vars

\* SpecDef: the definitions of a Tool over the steps of a run.  The Tool's strict
\* attribute may be assigned between two calls of prepare_tool_def and while its hook
\* is awaited, and the hook may change the schema of the definition it is handed.
InitDef == Init /\ run_context.retry = 0

PrepareResumeAny ==
    \E answer \in HookAnswers \cup SchemaHookAnswers : PrepareToolDefResume(answer)
AssignStrict == \E v \in StrictValues : SetStrict(v)

NextDef == PrepareToolDefCall \/ PrepareResumeAny \/ AssignStrict

SpecDef == InitDef /\ [][NextDef]_vars

\* SpecLong: as Spec with a working tracer, and two more runs, so that a Tool can
\* exhaust its budget, fail again, succeed and fail once more.
InitLong == Init /\ prepare = None /\ run_context.retry = 0

StartLong == \E m \in Messages : RunStartUpTo(LongRuns, 1, m, "ok", FALSE)

NextLong == StartLong \/ ResumeOne

SpecLong == InitLong /\ [][NextLong]_vars

\* SpecConc: the caller issues invocations of the same Tool without awaiting the
\* earlier ones; they interleave at the await of the callable.
InitConc == Init /\ prepare = None /\ run_context.retry = 0

StartAny == \E i \in Slots, m \in Messages : RunStart(i, m, "ok", FALSE)
ResumeAny == \E i \in Slots, o \in CallOutcomes : RunResume(i, o)

NextConc == StartAny \/ ResumeAny

SpecConc == InitConc /\ [][NextConc]_vars

\* ------------------------------------------------------------ properties
\* A finished run that was a recoverable failure (the arguments did not decode, or
\* the callable raised ModelRetry) and whose outcome reached the caller.
IsRecoverableFailure(e) ==
    /\ e.cause \in {"decode_error", "ModelRetry"}
    /\ e.kind \in {"RetryPrompt", "Exhausted"}

\* The runs p+1..n were all recoverable failures.
FailuresFrom(p, n) == \A q \in (p + 1)..n : IsRecoverableFailure(hist[q])

\* The n-th failure of a budget of k: a Retry Prompt up to k, the fatal error at k+1.
WithinBudget(e, n, k) ==
    /\ n <= k => e.kind = "RetryPrompt"
    /\ n = k + 1 => e.kind = "Exhausted"

\* C1 (retry bound): on a Tool with max_retries = k whose counter starts at 0, when
\* every invocation so far ended in a recoverable failure, the first k of them
\* returned a Retry Prompt and the (k+1)-th raised the fatal error.
C1_RetryBound ==
    max_retries # NoBound =>
        \A n \in 1..Len(hist) :
            FailuresFrom(0, n) => WithinBudget(hist[n], n, max_retries)

\* k >= 1 failures of both kinds were answered by prompts and the next one was fatal.
C1_Witness ==
    /\ max_retries >= 1
    /\ Len(hist) = max_retries + 1
    /\ FailuresFrom(0, Len(hist))
    /\ \E n, m \in 1..Len(hist) : hist[n].cause = "decode_error" /\ hist[m].cause = "ModelRetry"
    /\ hist[Len(hist)].kind = "Exhausted"
    /\ last.result.kind = "raise"

\* C2 (reset on success): a successful invocation leaves current_retry at 0, the
\* recoverable failure right after it leaves the counter at 1, and the failures that
\* follow a success have the whole budget again: the first k of them are prompts.
C2_ResetOnSuccess ==
    max_retries # NoBound =>
        \A p \in 1..Len(hist) :
            hist[p].cause = "returned" =>
                /\ p = Len(hist) => current_retry = 0
                /\ (p + 1 = Len(hist) /\ FailuresFrom(p, p + 1)) => current_retry = 1
                /\ \A n \in (p + 1)..Len(hist) :
                       FailuresFrom(p, n) => WithinBudget(hist[n], n - p, max_retries)

\* A prompt, then a success, then a failure that is a prompt again with the counter at 1.
C2_Witness ==
    /\ max_retries = 1
    /\ Len(hist) = 3
    /\ hist[1].kind = "RetryPrompt"
    /\ hist[2].kind = "Return"
    /\ hist[3].kind = "RetryPrompt"
    /\ current_retry = 1

\* C3 (bound unset): on a Tool whose max_retries is None a recoverable failure is
\* answered by a Retry Prompt as long as the incremented counter is within the default
\* d the caller supplies, whatever d >= 1 is.
C3_UnsetBoundUsesDefault ==
    \A d \in 1..MaxK :
        (/\ max_retries = NoBound
         /\ last.cause \in {"decode_error", "ModelRetry"}
         /\ last.current_retry <= d)
            => last.response.kind = "RetryPromptPart"

\* C4 (counter invariant, any interleaving): a step changes current_retry by +1, and
\* then a run ended in a recoverable failure, or to 0, and then a run ended in a
\* success; a run that gives a Retry Prompt leaves the counter in 1..max_retries; a
\* step that raises the counter above max_retries is a run that raises the fatal error.
C4_CounterInvariant ==
    [][/\ current_retry' \in {current_retry, current_retry + 1, 0}
       /\ current_retry' = current_retry + 1 =>
              /\ Len(hist') = Len(hist) + 1
              /\ last'.cause \in {"decode_error", "ModelRetry"}
       /\ (current_retry' = 0 /\ current_retry # 0) =>
              /\ Len(hist') = Len(hist) + 1
              /\ last'.cause = "returned"
       /\ (Len(hist') = Len(hist) + 1 /\ last'.response.kind = "RetryPromptPart") =>
              /\ max_retries # NoBound
              /\ current_retry' = current_retry + 1
              /\ 1 <= current_retry' /\ current_retry' <= max_retries
       /\ (current_retry' > current_retry /\ current_retry' > max_retries) =>
              /\ last'.response.kind = "raise"
              /\ last'.response.type = "UnexpectedModelBehavior"
      ]_vars

\* The last prompt of the budget is given while another invocation is in flight.
C4_Witness ==
    /\ max_retries >= 1
    /\ InFlight # {}
    /\ last.response.kind = "RetryPromptPart"
    /\ current_retry = max_retries
    /\ \E n \in 1..Len(hist) : hist[n].cause = "returned"

\* C5 (only the two recoverable kinds are retried): a Retry Prompt comes from a decode
\* failure or from a ModelRetry of the callable; any other exception thrown at the
\* await leaves run as an exception of the same type, with no part returned.
C5_OnlyRecoverableRetried ==
    /\ last.response.kind = "RetryPromptPart" =>
           \/ last.thrown = None /\ last.cause = "decode_error"
           \/ last.thrown = "ModelRetry"
    /\ last.thrown \notin {None, "ModelRetry"} =>
           /\ last.result.kind = "raise"
           /\ last.result.type = last.thrown

\* A ValidationError raised in the body of the callable left run as it was.
C5_Witness ==
    /\ last.thrown = "ValidationError"
    /\ last.result.kind = "raise"
    /\ last.result.type = "ValidationError"
    /\ max_retries >= 1

\* C6 (what the fatal error carries): the retries-exhausted error carries the
\* configured bound and the name of the tool.
C6_ExhaustedCarriesBoundAndName ==
    (last.response.kind = "raise" /\ last.response.type = "UnexpectedModelBehavior") =>
        /\ last.response.fields.max_retries = max_retries
        /\ "tool_name" \in DOMAIN last.response.fields
        /\ last.response.fields.tool_name = ToolName

\* The recoverable failures at the end of hist that reached the caller.
TrailingFailures ==
    CHOOSE m \in 0..Len(hist) :
        /\ FailuresFrom(Len(hist) - m, Len(hist))
        /\ m = Len(hist) \/ ~IsRecoverableFailure(hist[Len(hist) - m])

\* C7 (context derivation, one invocation at a time): the context the callable is
\* awaited with has retry equal to current_retry, which is the number n of consecutive
\* recoverable failures since the last success (or since construction), and has the
\* tool_name and tool_call_id of the Call Message, whatever run_context holds.
C7_ContextDerivation ==
    \A i \in Slots :
        calls[i].pc = "in_call" =>
            /\ calls[i].ctx.retry = current_retry
            /\ calls[i].ctx.tool_name = calls[i].msg.tool_name
            /\ calls[i].ctx.tool_call_id = calls[i].msg.tool_call_id
            /\ LET m == TrailingFailures
               IN  (m = Len(hist) \/ hist[Len(hist) - m].cause = "returned")
                       => calls[i].ctx.retry = m

\* After a prompt, a callable is awaited with retry 1 and the call's own names, the
\* base context holding another retry and other names.
C7_Witness ==
    /\ calls[1].pc = "in_call"
    /\ calls[1].ctx.retry = 1
    /\ hist # <<>> /\ hist[Len(hist)].kind = "RetryPrompt"
    /\ run_context.retry # 1 /\ run_context.tool_name # None
    /\ calls[1].ctx.tool_name = "alias"

\* C8 (definition omission): a prepare hook that answers None makes prepare_tool_def
\* return None, and while the step's definition is None no invocation of run reaches
\* the callable.
C8_OmittedNotInvocable ==
    [][/\ \A r \in BOOLEAN : PrepareToolDefResult("hook", JsonSchema(r), None, "none").kind = "None"
       /\ tool_def.kind = "None" =>
              \A i \in Slots : calls'[i].pc = "in_call" => calls[i].pc = "in_call"
      ]_vars

\* C9 (tracing isolation): whatever the tracer does, _run is executed and what it
\* returned or raised is what run gives its caller.
C9_TracingIsolation ==
    hist # <<>> =>
        /\ last.response.kind # "none"
        /\ last.result = last.response

\* C10 (span closure): when run exits, the span it started has been ended.
C10_SpanClosed ==
    /\ last.span # "open"
    /\ (hist # <<>> /\ last.cause # "span_start") => last.span = "closed"

\* A run cancelled while suspended in the callable left with its span ended.
C10_Witness ==
    /\ last.thrown = "CancelledError"
    /\ last.result.kind = "raise"
    /\ last.span = "closed"

\* C11 (race on the counter): nothing ties an invocation's outcome to the counter it
\* snapshotted: a recoverable failure is counted on top of the counter as it is when
\* the await ends (before), a success sets it to 0 whatever was counted meanwhile.
\* With invocations in flight at once the snapshot and that counter can differ
\* (C11_Witness).
C11_RaceOnCounter ==
    hist # <<>> =>
        /\ last.cause \in {"decode_error", "ModelRetry"} =>
               last.current_retry = last.before + 1
        /\ last.cause = "returned" => last.current_retry = 0

\* A success of an invocation that started before a failure erased that failure, and
\* a later failure was counted on a counter other than the one its callable observed.
C11_Witness ==
    \E p, q \in 1..Len(hist) :
        /\ p < q
        /\ hist[p].cause = "returned"
        /\ hist[p].before > hist[p].snapshot
        /\ hist[q].cause = "ModelRetry"
        /\ hist[q].snapshot # hist[q].before

\* No run among p+1..q-1 ended in a success.
NoReturnBetween(p, q) == \A r \in (p + 1)..(q - 1) : hist[r].cause # "returned"

\* C12 (success resets from Exhausted): a run that raised the fatal error left the
\* counter above max_retries; until a run succeeds every further recoverable failure
\* is fatal again and the counter keeps growing; the first success after it sets the
\* counter to 0, and the failures that follow it have max_retries prompts again.
C12_ResetFromExhausted ==
    max_retries # NoBound =>
        \A p \in 1..Len(hist) :
            hist[p].kind = "Exhausted" =>
                /\ hist[p].before + 1 > max_retries
                /\ p = Len(hist) => current_retry = hist[p].before + 1
                /\ \A q \in (p + 1)..Len(hist) :
                       NoReturnBetween(p, q) =>
                           /\ IsRecoverableFailure(hist[q]) =>
                                  /\ hist[q].kind = "Exhausted"
                                  /\ hist[q].before > hist[p].before
                           /\ hist[q].cause = "returned" =>
                                  /\ q = Len(hist) => current_retry = 0
                                  /\ \A n \in (q + 1)..Len(hist) :
                                         FailuresFrom(q, n) =>
                                             /\ hist[n].before = n - q - 1
                                             /\ WithinBudget(hist[n], n - q, max_retries)

\* The budget of one prompt was used up, two more failures were fatal, a success
\* followed, and the failure after it got a prompt with the counter back at 1.
C12_Witness ==
    /\ max_retries = 1
    /\ Len(hist) = 5
    /\ hist[1].kind = "RetryPrompt"
    /\ hist[2].kind = "Exhausted"
    /\ hist[3].kind = "Exhausted"
    /\ hist[3].before = 2
    /\ hist[4].kind = "Return"
    /\ hist[5].kind = "RetryPrompt"
    /\ current_retry = 1

\* C13 (result envelope): a finished run gave exactly one of a Return, a Retry Prompt
\* or a raised error.  A Return comes from a callable that returned and carries the
\* message's tool name and call identifier and the returned content; a Retry Prompt
\* carries the message's tool name and call identifier and, as content, the field
\* errors of the decode failure or the message string of the ModelRetry.
C13_ResultEnvelope ==
    hist # <<>> =>
        /\ last.result.kind \in {"ToolReturnPart", "RetryPromptPart", "raise"}
        /\ last.result.kind = "ToolReturnPart" =>
               /\ last.cause = "returned"
               /\ last.result.tool_name = last.msg.tool_name
               /\ last.result.tool_call_id = last.msg.tool_call_id
               /\ last.result.content = last.payload
        /\ last.result.kind = "RetryPromptPart" =>
               /\ last.cause \in {"decode_error", "ModelRetry"}
               /\ last.result.tool_name = last.msg.tool_name
               /\ last.result.tool_call_id = last.msg.tool_call_id
               /\ last.cause = "decode_error" =>
                      /\ last.errors # <<>>
                      /\ last.result.content = last.errors
               /\ last.cause = "ModelRetry" =>
                      last.result.content = last.payload
        /\ last.cause = "returned" =>
               last.response = ToolReturnPart(last.msg.tool_name, last.payload,
                                              last.msg.tool_call_id)

\* A message naming the tool otherwise than the Tool is named got a Retry Prompt with
\* the field errors of its arguments, and the run before it returned a Return.
C13_Witness ==
    /\ Len(hist) >= 2
    /\ hist[Len(hist) - 1].kind = "Return"
    /\ last.result.kind = "RetryPromptPart"
    /\ last.cause = "decode_error"
    /\ last.msg.tool_name # ToolName
    /\ last.result.tool_name = last.msg.tool_name
    /\ last.result.content = last.errors

\* C14 (base context not mutated): no step of run writes the context the caller
\* handed in; the invocation's retry, tool_name and tool_call_id are in the context
\* built for the callable only.
C14_BaseContextKept ==
    [][/\ run_context' = run_context
       /\ \A i \in Slots :
              (calls[i].pc = "idle" /\ calls'[i].pc = "in_call") =>
                  /\ calls'[i].ctx.retry = current_retry
                  /\ calls'[i].ctx.tool_name = calls'[i].msg.tool_name
                  /\ calls'[i].ctx.tool_call_id = calls'[i].msg.tool_call_id
      ]_vars

\* After a failure, a callable ran with retry = 1 and the message's names in its
\* context and returned, and the caller's context still has its own values.
C14_Witness ==
    /\ last.cause = "returned"
    /\ last.snapshot = 1
    /\ last.msg.tool_name = "lookup"
    /\ run_context = [retry |-> 5, tool_name |-> "previous", tool_call_id |-> "call_0"]

\* C15 (empty or absent arguments): an empty text is decoded as the text '{}', an
\* empty or absent mapping is validated as the empty mapping.  When the schema
\* requires no field, a run with such arguments does not end in a decode failure: the
\* callable is awaited with the arguments the validator makes of the empty object
\* (every parameter at its default) and the counter is left alone up to the await.
\* When the schema requires x, the failure is the missing field of an empty object,
\* not a text that does not parse.
C15_EmptyArgsDecode ==
    /\ OrEmptyText("") = "{}"
    /\ OrEmptyMap(NoneArg) = EmptyMap /\ OrEmptyMap(DictArg(EmptyMap)) = EmptyMap
    /\ \A a \in {StrArg(""), DictArg(EmptyMap), NoneArg} :
           /\ Decode(a, FALSE) = ValidatePython(EmptyMap, FALSE)
           /\ Decode(a, FALSE) = JsonOk({<<"x", DefaultVal>>})
           /\ Decode(a, TRUE) = JsonErr(<<FieldError("missing", "x")>>)
    /\ \A i \in Slots :
           (calls[i].pc = "in_call" /\ calls[i].msg.falsy_args) =>
               /\ ~required
               /\ calls[i].args_dict = {<<"x", DefaultVal>>}
               /\ calls[i].errors = <<>>
    /\ (hist # <<>> /\ last.msg.falsy_args /\ last.cause # "span_start") =>
           IF required
           THEN /\ last.cause = "decode_error"
                /\ last.errors = <<FieldError("missing", "x")>>
           ELSE /\ last.cause # "decode_error"
                /\ last.response.kind = "RetryPromptPart" => last.thrown = "ModelRetry"
                /\ last.snapshot = last.before

\* The first run of a Tool whose schema requires nothing had empty or absent
\* arguments: the callable was awaited and returned, and the counter is 0.
C15_Witness ==
    /\ ~required
    /\ Len(hist) = 1
    /\ last.msg.falsy_args
    /\ last.cause = "returned"
    /\ last.result.kind = "ToolReturnPart"
    /\ current_retry = 0

\* C16 (per-step definition freshness): every call of prepare_tool_def builds its
\* definition from the Tool's attributes of that moment, so an assignment to strict
\* shows in the next definition built; and what a hook did to the definition of an
\* earlier step, its parameter schema included, is not in the definition built for a
\* later step: that one has the schema the Tool was constructed with.
C16_DefinitionFreshness ==
    [][built_def' # built_def =>
           /\ built_def'.name = ToolName
           /\ built_def'.description = "Look x up."
           /\ built_def'.strict = strict
           /\ built_def'.parameters_json_schema = JsonSchema(required)
      ]_vars

\* C17 (decode failure short-circuits dispatch): the callable is awaited only for
\* arguments that validated.  A run whose arguments did not validate ended without
\* a context built for it and without the callable awaited, in _on_error: the counter
\* was incremented, and the run gave a Retry Prompt when the new counter is within
\* max_retries and raised the fatal error otherwise.
C17_DecodeFailureShortCircuits ==
    /\ \A i \in Slots : calls[i].pc = "in_call" => calls[i].errors = <<>>
    /\ (hist # <<>> /\ last.cause = "decode_error") => last.errors # <<>>
    /\ (hist # <<>> /\ last.errors # <<>>) =>
           /\ last.cause = "decode_error"
           /\ last.thrown = None
           /\ last.snapshot = -1
           /\ last.current_retry = last.before + 1
           /\ IF max_retries # NoBound /\ last.current_retry <= max_retries
              THEN last.response.kind = "RetryPromptPart"
              ELSE last.response = UnexpectedModelBehavior(max_retries)

\* The first run had arguments that did not validate; it is over, with a Retry
\* Prompt, the counter at 1, no context built and nothing awaited.
C17_Witness ==
    /\ Len(hist) = 1
    /\ last.cause = "decode_error"
    /\ last.errors = <<FieldError("int_parsing", "x")>>
    /\ last.response.kind = "RetryPromptPart"
    /\ last.snapshot = -1
    /\ current_retry = 1
    /\ InFlight = {}

\* C18 (a fatal failure that is no retry leaves the counter alone): a run that ends
\* because the callable raised an exception other than ModelRetry (the task's
\* cancellation included) raises that exception and leaves current_retry as it was,
\* neither incremented nor reset; so does every step of prepare_tool_def, the one in
\* which its hook raises included.  The counter changes only in a step that ends a
\* run in a recoverable failure or in a success, so from the call of prepare_tool_def
\* to the exception of its hook the counter differs only by the runs that ended
\* meanwhile.
C18_FatalLeavesCounter ==
    [][/\ (Len(hist') = Len(hist) + 1 /\ last'.cause = "callable_raised") =>
              /\ last'.thrown \notin {None, "ModelRetry"}
              /\ last'.response = Raised(last'.thrown, [origin |-> "callable"])
              /\ last'.before = current_retry
              /\ current_retry' = current_retry
       /\ (tool_def' # tool_def \/ built_def' # built_def \/ prepare_pc' # prepare_pc) =>
              /\ current_retry' = current_retry
              /\ hist' = hist
       /\ current_retry' # current_retry =>
              /\ Len(hist') = Len(hist) + 1
              /\ last'.cause \in {"decode_error", "ModelRetry", "returned"}
      ]_vars

\* With one failure counted, the prepare hook raised and the callable raised a
\* ValueError: the counter is still 1.
C18_Witness ==
    /\ tool_def = Raised("HookError", [origin |-> "prepare"])
    /\ prepare_pc = "idle"
    /\ last.cause = "callable_raised"
    /\ last.thrown = "ValueError"
    /\ last.result.kind = "raise"
    /\ last.before = 1
    /\ current_retry = 1

\* The Retry Prompts given after run p (after the Tool was made, for p = 0) and before
\* the next success.
PromptsAfter(p) ==
    {n \in (p + 1)..Len(hist) :
        hist[n].kind = "RetryPrompt" /\ NoReturnBetween(p, n + 1)}

\* C19 (bounded prompts between resets, any interleaving): on a Tool with
\* max_retries = k, between two consecutive successes (or from the Tool's creation
\* to the first one) at most k runs gave a Retry Prompt, each with the counter raised
\* to a value within 1..k, and no two of them at the same counter value.
C19_BoundedPrompts ==
    max_retries # NoBound =>
        \A p \in 0..Len(hist) :
            (p = 0 \/ hist[p].cause = "returned") =>
                /\ Cardinality(PromptsAfter(p)) <= max_retries
                /\ \A n \in PromptsAfter(p) : hist[n].before + 1 <= max_retries
                /\ \A n, m \in PromptsAfter(p) :
                       n # m => hist[n].before # hist[m].before

\* Two invocations were in flight together with the counter at 0 and both asked for
\* a retry: they got the two prompts of the budget at counters 1 and 2, and the
\* failure after them was fatal.
C19_Witness ==
    /\ max_retries = 2
    /\ Len(hist) = 3
    /\ hist[1].kind = "RetryPrompt" /\ hist[1].snapshot = 0 /\ hist[1].before = 0
    /\ hist[2].kind = "RetryPrompt" /\ hist[2].snapshot = 0 /\ hist[2].before = 1
    /\ hist[3].kind = "Exhausted"
    /\ current_retry = 3

====
